---- MODULE Spec2Model ----
(***************************************************************************)
(* A model of rust-bitcoin-scriptexec's execution substrate:               *)
(*   - ConditionStack                         (src/src/utils.rs)           *)
(*   - the scriptint codec                    (src/src/utils.rs)           *)
(*   - the weight Profiler                    (src/src/profiler.rs)        *)
(* Each component has a specification of its own (SpecCond, SpecProf,      *)
(* SpecCodec); the variables of the other components keep their initial    *)
(* values.                                                                 *)
(***************************************************************************)
EXTENDS Integers, Sequences, FiniteSets, TLC

VARIABLES
    \* ConditionStack (utils.rs:18-24), the reference list of booleans that is
    \* driven in lockstep with it, and the last call with its return value
    size, first_false_pos, bools, cs_call,
    \* Profiler (profiler.rs:24-31)
    count, stage, pending_string, stack, opcode_count,
    \* the last Profiler call (the instruction fed, the stage it met, the
    \* result) and what an observer of the instruction stream has seen
    p_call, obs,
    \* the codec: the arguments of a read_scriptint_size call, the argument
    \* of a scriptint_vec call, the build's profile (overflow checks on or
    \* off), and the results of decoding, of encoding and of decoding the
    \* encoding again
    codec_pc, arg_v, arg_max_size, arg_minimal, arg_n, overflow_checks,
    decoded, encoded, redecoded,
    \* Stack (data_structures.rs:14): the vector of entries, bottom first,
    \* and the last call with its arguments and its result
    entries, s_call

cond_vars == <<size, first_false_pos, bools, cs_call>>

prof_vars == <<count, stage, pending_string, stack, opcode_count, p_call, obs>>

codec_vars == <<codec_pc, arg_v, arg_max_size, arg_minimal, arg_n, overflow_checks,
                decoded, encoded, redecoded>>

stack_vars == <<entries, s_call>>

vars == <<size, first_false_pos, bools, cs_call,
          count, stage, pending_string, stack, opcode_count, p_call, obs,
          codec_pc, arg_v, arg_max_size, arg_minimal, arg_n, overflow_checks,
          decoded, encoded, redecoded,
          entries, s_call>>

(***************************************************************************)
(* ConditionStack, utils.rs:18-83.                                         *)
(***************************************************************************)

\* Bound: the deepest conceptual stack the model builds.
MaxCondDepth == 6

\* utils.rs:28, const NO_FALSE: usize = usize::MAX. TLC's integers are 32 bits
\* wide, so the sentinel is the largest of them; size stays below it just as
\* it stays below usize::MAX in the program.
NO_FALSE == 2147483647

\* utils.rs:30-35
ConditionStack_new == [size |-> 0, first_false_pos |-> NO_FALSE]

\* utils.rs:37-39
ConditionStack_all_true(self) == self.first_false_pos = NO_FALSE

\* utils.rs:41-48
ConditionStack_push(self, v) ==
    LET ffp == IF self.first_false_pos = NO_FALSE /\ ~v
               THEN self.size
               ELSE self.first_false_pos
    IN  [size |-> self.size + 1, first_false_pos |-> ffp]

\* A pop that reports a pop on the empty stack too.
ConditionStack_pop_always_true(self) ==
    IF self.size = 0
    THEN [self |-> self, ret |-> TRUE]
    ELSE LET sz == self.size - 1
             ffp == IF self.first_false_pos = sz
                    THEN NO_FALSE
                    ELSE self.first_false_pos
         IN  [self |-> [size |-> sz, first_false_pos |-> ffp], ret |-> TRUE]

\* A pop that forgets to reset first_false_pos when the first false goes.
ConditionStack_pop_keeps_false(self) ==
    IF self.size = 0
    THEN [self |-> self, ret |-> FALSE]
    ELSE [self |-> [self EXCEPT !.size = self.size - 1], ret |-> TRUE]

\* utils.rs:53-64; the result is the struct after the call and the value returned.
ConditionStack_pop(self) ==
    IF self.size = 0
    THEN [self |-> self, ret |-> FALSE]
    ELSE LET sz == self.size - 1
             ffp == IF self.first_false_pos = sz
                    THEN NO_FALSE
                    ELSE self.first_false_pos
         IN  [self |-> [size |-> sz, first_false_pos |-> ffp], ret |-> TRUE]

\* A toggle that marks the slot above the top as the first false.
ConditionStack_toggle_top_off_by_one(self) ==
    IF self.size = 0
    THEN [self |-> self, ret |-> FALSE]
    ELSE LET ffp == IF self.first_false_pos = NO_FALSE
                    THEN self.size
                    ELSE IF self.first_false_pos = self.size - 1
                         THEN NO_FALSE
                         ELSE self.first_false_pos
         IN  [self |-> [self EXCEPT !.first_false_pos = ffp], ret |-> TRUE]

\* utils.rs:66-82
ConditionStack_toggle_top(self) ==
    IF self.size = 0
    THEN [self |-> self, ret |-> FALSE]
    ELSE LET ffp == IF self.first_false_pos = NO_FALSE
                    THEN self.size - 1
                    ELSE IF self.first_false_pos = self.size - 1
                         THEN NO_FALSE
                         ELSE self.first_false_pos
         IN  [self |-> [self EXCEPT !.first_false_pos = ffp], ret |-> TRUE]

\* The struct held in the variables size and first_false_pos.
cond_self == [size |-> size, first_false_pos |-> first_false_pos]

InitCond ==
    /\ size = ConditionStack_new.size
    /\ first_false_pos = ConditionStack_new.first_false_pos
    /\ bools = <<>>
    /\ cs_call = [op |-> "new", ret |-> TRUE]

\* push(v), with the reference list appending v.
CondPush ==
    /\ size < MaxCondDepth
    /\ \E v \in BOOLEAN :
        LET s == ConditionStack_push(cond_self, v)
        IN  /\ size' = s.size
            /\ first_false_pos' = s.first_false_pos
            /\ bools' = Append(bools, v)
            /\ cs_call' = [op |-> "push", ret |-> TRUE]
    /\ UNCHANGED <<prof_vars, codec_vars, stack_vars>>

\* pop(), with the reference list dropping its last element if it has one.
CondPop ==
    LET r == ConditionStack_pop(cond_self)
    IN  /\ size' = r.self.size
        /\ first_false_pos' = r.self.first_false_pos
        /\ bools' = IF bools = <<>> THEN bools ELSE SubSeq(bools, 1, Len(bools) - 1)
        /\ cs_call' = [op |-> "pop", ret |-> r.ret]
        /\ UNCHANGED <<prof_vars, codec_vars, stack_vars>>

\* toggle_top(), with the reference list negating its last element if it has one.
CondToggleTop ==
    LET r == ConditionStack_toggle_top(cond_self)
    IN  /\ size' = r.self.size
        /\ first_false_pos' = r.self.first_false_pos
        /\ bools' = IF bools = <<>> THEN bools
                    ELSE [bools EXCEPT ![Len(bools)] = ~bools[Len(bools)]]
        /\ cs_call' = [op |-> "toggle_top", ret |-> r.ret]
        /\ UNCHANGED <<prof_vars, codec_vars, stack_vars>>

(***************************************************************************)
(* Profiler, profiler.rs:8-174.                                            *)
(*                                                                         *)
(* A byte string (the payload of Instruction::PushBytes) is a sequence of  *)
(* runs [b |-> byte, n |-> repeats], no run empty and no two neighbouring  *)
(* runs of the same byte, so that equal strings are equal values and a     *)
(* 65536-byte push stays small. A String is the same, of code points.      *)
(***************************************************************************)

\* Bound: the marker triples (start or end) one instruction stream begins.
MaxTriples == 3

\* Bound: the weight-adding instructions one instruction stream is given.
MaxOrdinary == 1

\* Bound: the longest label the marker constructors are given, in bytes.
MaxLabelLen == 1

\* n copies of byte b.
Fill(b, n) == IF n = 0 THEN <<>> ELSE <<[b |-> b, n |-> n]>>

\* profiler.rs:56, v.len()
RECURSIVE ByteLen(_)
ByteLen(v) == IF v = <<>> THEN 0 ELSE Head(v).n + ByteLen(Tail(v))

\* Neighbouring runs of one symbol merged: the canonical form of a string.
RECURSIVE Normalize(_)
Normalize(runs) ==
    IF Len(runs) <= 1 THEN runs
    ELSE LET rest == Normalize(Tail(runs))
         IN  IF Head(runs).b = Head(rest).b
             THEN <<[b |-> Head(runs).b, n |-> Head(runs).n + Head(rest).n]>> \o Tail(rest)
             ELSE <<Head(runs)>> \o rest

\* U+FFFD REPLACEMENT CHARACTER, which String::from_utf8_lossy (profiler.rs:50)
\* puts in the place of every ill-formed sequence.
REPLACEMENT_CHARACTER == 65533

\* A lossy decoding that drops the ill-formed bytes instead of replacing them.
from_utf8_lossy_drops(v) ==
    SelectSeq(v, LAMBDA r : r.b < 128)

\* profiler.rs:50 and :54, String::from_utf8_lossy(v.as_bytes()).to_string().
\* The model's bytes are ASCII bytes, which decode to themselves, and 0xFF,
\* which occurs in no well-formed UTF-8 sequence and is replaced on its own.
from_utf8_lossy(v) ==
    Normalize([i \in DOMAIN v |->
        [b |-> IF v[i].b < 128 THEN v[i].b ELSE REPLACEMENT_CHARACTER, n |-> v[i].n]])

\* profiler.rs:160-174: the opcodes of the marker triples, and one opcode
\* that is none of them.
OP_NOP9 == "OP_NOP9"
OP_NOP10 == "OP_NOP10"
OP_DROP == "OP_DROP"
OP_ADD == "OP_ADD"

Op(opcode) == [kind |-> "Op", opcode |-> opcode]
PushBytes(v) == [kind |-> "PushBytes", bytes |-> v]

\* The label "a" and the one-byte label 0xFF, which is not UTF-8.
LabelBytes == {Fill(97, 1), Fill(255, 1)}

\* The lengths of the longer pushes: both sides of each threshold of
\* profiler.rs:59-74, and the 3-byte push of the spec's scenario.
PushLens == {3, 75, 76, 255, 256, 65535, 65536}

\* The instructions the decoder can feed (spec.md section 6).
Instructions ==
    {Op(o) : o \in {OP_NOP9, OP_NOP10, OP_DROP, OP_ADD}}
    \cup {PushBytes(v) : v \in LabelBytes}
    \cup {PushBytes(Fill(97, n)) : n \in PushLens}

\* profiler.rs:92, :95-97, :115-117 and :120-122, :134-136, :139
ERR_EXPECTING_PUSHBYTES ==
    "Expecting pushbytes after PROFILER_START or PROFILER_END. Found other opcodes."
ERR_EXPECTING_DROP == "Expecting AS_FOLLOWS after pushbytes. Found other opcodes."
ERR_NOT_STARTED == "Ending a profiler unit that hasn't been started."
ERR_UNFINISHED == "There seems to be unfinished profiling instructions."
ERR_UNCLOSED == "There seems to be unclosed profiling steps."

Ok(self) == [self |-> self, ret |-> "Ok"]
Err(self, msg) == [self |-> self, ret |-> msg]

\* profiler.rs:40-42, Self::default()
Profiler_new ==
    [count |-> <<>>, stage |-> "Pending", pending_string |-> <<>>,
     stack |-> <<>>, opcode_count |-> 0]

\* IndexMap (profiler.rs:25): the entries in insertion order.
IndexMap_index_of(map, k) ==
    IF \E i \in DOMAIN map : map[i].key = k
    THEN CHOOSE i \in DOMAIN map : map[i].key = k
    ELSE 0

\* profiler.rs:106, count.get_mut(v), None as <<>> (no list is ever empty)
IndexMap_get(map, k) ==
    IF IndexMap_index_of(map, k) = 0 THEN <<>> ELSE map[IndexMap_index_of(map, k)].vals

\* profiler.rs:56-74: what an ordinary push of len bytes adds to opcode_count.
push_weight(len) ==
    len + (IF len <= 75 THEN 1
           ELSE IF len <= 255 THEN 1 + 1
           ELSE IF len <= 65535 THEN 1 + 2
           ELSE 1 + 4)

\* profiler.rs:46-78, the Instruction::PushBytes(v) arm of update
update_PushBytes(self, v) ==
    IF self.stage = "WaitingForPushbytesToStart"
    THEN Ok([self EXCEPT !.stage = "WaitingForDropToStart",
                         !.pending_string = from_utf8_lossy(v)])
    ELSE IF self.stage = "WaitingForPushbytesToEnd"
    THEN Ok([self EXCEPT !.stage = "WaitingForDropToEnd",
                         !.pending_string = from_utf8_lossy(v)])
    ELSE Ok([self EXCEPT !.opcode_count = self.opcode_count + push_weight(ByteLen(v))])

\* A start of region that weighs the marker's drop into the baseline.
update_start_region_counts_drop(self) ==
    Ok([self EXCEPT !.stack = Append(self.stack,
                                     [label |-> self.pending_string,
                                      count |-> self.opcode_count + 1]),
                    !.stage = "Pending"])

\* profiler.rs:100-102, OP_DROP in WaitingForDropToStart
update_start_region(self) ==
    Ok([self EXCEPT !.stack = Append(self.stack,
                                     [label |-> self.pending_string,
                                      count |-> self.opcode_count]),
                    !.stage = "Pending"])

\* An end of region that pops the top entry whatever its label.
update_end_region_any_label(self) ==
    IF self.stack # <<>>
    THEN LET top == self.stack[Len(self.stack)]
             i == IndexMap_index_of(self.count, top.label)
             delta == self.opcode_count - top.count
         IN  Ok([self EXCEPT
                   !.count = IF i # 0
                             THEN [self.count EXCEPT ![i].vals = Append(@, delta)]
                             ELSE Append(self.count, [key |-> top.label, vals |-> <<delta>>]),
                   !.stack = SubSeq(self.stack, 1, Len(self.stack) - 1),
                   !.stage = "Pending"])
    ELSE Err(self, ERR_NOT_STARTED)

\* An end of region that pops the nesting stack before it compares labels.
update_end_region_pops_first(self) ==
    IF self.stack # <<>>
    THEN LET top == self.stack[Len(self.stack)]
             i == IndexMap_index_of(self.count, top.label)
             delta == self.opcode_count - top.count
             popped == SubSeq(self.stack, 1, Len(self.stack) - 1)
         IN  IF top.label = self.pending_string
             THEN Ok([self EXCEPT
                        !.count = IF i # 0
                                  THEN [self.count EXCEPT ![i].vals = Append(@, delta)]
                                  ELSE Append(self.count,
                                              [key |-> top.label, vals |-> <<delta>>]),
                        !.stack = popped,
                        !.stage = "Pending"])
             ELSE Err([self EXCEPT !.stack = popped], ERR_NOT_STARTED)
    ELSE Err(self, ERR_NOT_STARTED)

\* An end of region that inserts the value as the label's whole list.
update_end_region_overwrites(self) ==
    IF self.stack # <<>>
    THEN LET top == self.stack[Len(self.stack)]
             i == IndexMap_index_of(self.count, top.label)
             delta == self.opcode_count - top.count
         IN  IF top.label = self.pending_string
             THEN Ok([self EXCEPT
                        !.count = IF i # 0
                                  THEN [self.count EXCEPT ![i].vals = <<delta>>]
                                  ELSE Append(self.count,
                                              [key |-> top.label, vals |-> <<delta>>]),
                        !.stack = SubSeq(self.stack, 1, Len(self.stack) - 1),
                        !.stage = "Pending"])
             ELSE Err(self, ERR_NOT_STARTED)
    ELSE Err(self, ERR_NOT_STARTED)

\* profiler.rs:103-123, OP_DROP in WaitingForDropToEnd
update_end_region(self) ==
    IF self.stack # <<>>
    THEN LET top == self.stack[Len(self.stack)]
             i == IndexMap_index_of(self.count, top.label)
             delta == self.opcode_count - top.count
         IN  IF top.label = self.pending_string
             THEN Ok([self EXCEPT
                        !.count = IF i # 0
                                  THEN [self.count EXCEPT ![i].vals = Append(@, delta)]
                                  ELSE Append(self.count,
                                              [key |-> top.label, vals |-> <<delta>>]),
                        !.stack = SubSeq(self.stack, 1, Len(self.stack) - 1),
                        !.stage = "Pending"])
             ELSE Err(self, ERR_NOT_STARTED)
    ELSE Err(self, ERR_NOT_STARTED)

\* profiler.rs:79-128, the Instruction::Op(opcode) arm of update
update_Op(self, opcode) ==
    IF self.stage = "Pending"
    THEN IF opcode = OP_NOP9
         THEN Ok([self EXCEPT !.stage = "WaitingForPushbytesToStart"])
         ELSE IF opcode = OP_NOP10
         THEN Ok([self EXCEPT !.stage = "WaitingForPushbytesToEnd"])
         ELSE Ok([self EXCEPT !.opcode_count = self.opcode_count + 1])
    ELSE IF self.stage \in {"WaitingForPushbytesToStart", "WaitingForPushbytesToEnd"}
    THEN Err(self, ERR_EXPECTING_PUSHBYTES)
    ELSE IF opcode # OP_DROP
    THEN Err(self, ERR_EXPECTING_DROP)
    ELSE IF self.stage = "WaitingForDropToStart"
    THEN update_start_region(self)
    ELSE IF self.stage = "WaitingForDropToEnd"
    THEN update_end_region(self)
    ELSE Ok(self)

\* profiler.rs:44-130
Profiler_update(self, instruction) ==
    IF instruction.kind = "PushBytes"
    THEN update_PushBytes(self, instruction.bytes)
    ELSE update_Op(self, instruction.opcode)

\* A complete() that checks the nesting stack only.
Profiler_complete_ignores_stage(self) ==
    IF self.stack # <<>> THEN Err(self, ERR_UNCLOSED) ELSE Ok(self)

\* profiler.rs:132-142
Profiler_complete(self) ==
    IF self.stage # "Pending"
    THEN Err(self, ERR_UNFINISHED)
    ELSE IF self.stack # <<>>
    THEN Err(self, ERR_UNCLOSED)
    ELSE Ok(self)

\* The struct held in the Profiler's variables.
prof_self ==
    [count |-> count, stage |-> stage, pending_string |-> pending_string,
     stack |-> stack, opcode_count |-> opcode_count]

\* The placeholder for "no instruction" in p_call.
NoInstruction == [kind |-> "none"]

\* What the observer of the instruction stream knows at the start: no marker
\* triple under way (phase 0), nothing opened or closed, no region open.
\* regions holds, for each open region from the outermost to the innermost,
\* the weight of the ordinary instructions fed since its start triple ended;
\* closed_weight is that sum for the region closed last.
ObsInit ==
    [phase |-> 0, kind |-> "none", begun |-> 0, opened |-> 0, closed |-> 0,
     ordinary |-> 0, stray |-> 0, regions |-> <<>>, closed_weight |-> 0]

\* The weight the spec (section 4.4) gives an ordinary instruction.
SpecWeight(instruction) ==
    IF instruction.kind = "Op" THEN 1
    ELSE LET n == ByteLen(instruction.bytes)
         IN  IF n <= 75 THEN n + 1
             ELSE IF n <= 255 THEN n + 2
             ELSE IF n <= 65535 THEN n + 3
             ELSE n + 5

\* An ordinary instruction of weight w reaches every open region; fed inside
\* an end triple (inner_closing), it comes after the innermost region's end
\* triple has begun and reaches only the regions around it.
ObsOrdinary(o, w, inner_closing) ==
    [o EXCEPT !.ordinary = @ + 1,
              !.regions = [i \in DOMAIN o.regions |->
                              IF inner_closing /\ i = Len(o.regions)
                              THEN o.regions[i]
                              ELSE o.regions[i] + w]]

\* The observer's step on an instruction that update accepted: it follows
\* the marker triples (start or end opcode, label push, drop) in the stream.
ObsAccept(o, instruction) ==
    IF o.phase = 0
    THEN IF instruction = Op(OP_NOP9)
         THEN [o EXCEPT !.phase = 1, !.kind = "start", !.begun = @ + 1]
         ELSE IF instruction = Op(OP_NOP10)
         THEN [o EXCEPT !.phase = 1, !.kind = "end", !.begun = @ + 1]
         ELSE ObsOrdinary(o, SpecWeight(instruction), FALSE)
    ELSE IF o.phase = 1
    THEN [o EXCEPT !.phase = 2]
    ELSE IF instruction # Op(OP_DROP)
    THEN [ObsOrdinary(o, SpecWeight(instruction), o.kind = "end") EXCEPT !.stray = @ + 1]
    ELSE IF o.kind = "start"
    THEN [o EXCEPT !.phase = 0, !.kind = "none", !.opened = @ + 1,
                   !.regions = Append(@, 0)]
    ELSE [o EXCEPT !.phase = 0, !.kind = "none", !.closed = @ + 1,
                   !.closed_weight = IF o.regions = <<>> THEN -1
                                     ELSE o.regions[Len(o.regions)],
                   !.regions = IF o.regions = <<>> THEN <<>>
                               ELSE SubSeq(o.regions, 1, Len(o.regions) - 1)]

InitProf ==
    /\ count = Profiler_new.count
    /\ stage = Profiler_new.stage
    /\ pending_string = Profiler_new.pending_string
    /\ stack = Profiler_new.stack
    /\ opcode_count = Profiler_new.opcode_count
    /\ p_call = [fn |-> "new", ins |-> NoInstruction, stage |-> "Pending", ret |-> "Ok"]
    /\ obs = ObsInit

\* The bounds of the model on the instruction a stream may go on with.
WithinBounds(instruction, triples) ==
    /\ (stage = "Pending" /\ instruction \in {Op(OP_NOP9), Op(OP_NOP10)})
          => obs.begun < triples
    /\ (stage \in {"WaitingForPushbytesToStart", "WaitingForPushbytesToEnd"}
        /\ instruction.kind = "PushBytes")
          => ByteLen(instruction.bytes) <= MaxLabelLen
    /\ (\/ stage = "Pending" /\ instruction \notin {Op(OP_NOP9), Op(OP_NOP10)}
        \/ stage \in {"WaitingForDropToStart", "WaitingForDropToEnd"}
           /\ instruction.kind = "PushBytes")
          => obs.ordinary < MaxOrdinary

\* update(instruction), profiler.rs:44-130
Update(instruction) ==
    LET r == Profiler_update(prof_self, instruction)
    IN  /\ count' = r.self.count
        /\ stage' = r.self.stage
        /\ pending_string' = r.self.pending_string
        /\ stack' = r.self.stack
        /\ opcode_count' = r.self.opcode_count
        /\ p_call' = [fn |-> "update", ins |-> instruction,
                      stage |-> stage, ret |-> r.ret]
        /\ obs' = IF r.ret = "Ok" THEN ObsAccept(obs, instruction) ELSE obs
        /\ UNCHANGED <<cond_vars, codec_vars, stack_vars>>

\* update(instruction) on any instruction, in streams of up to MaxTriples
\* marker triples
ProfUpdate ==
    \E instruction \in Instructions :
        WithinBounds(instruction, MaxTriples) /\ Update(instruction)

\* The opcodes and the label pushes: the instructions of the marker triples,
\* the short pushes and the opcodes being ordinary instructions elsewhere.
MarkerInstructions ==
    {Op(o) : o \in {OP_NOP9, OP_NOP10, OP_DROP, OP_ADD}}
    \cup {PushBytes(v) : v \in LabelBytes}

\* update(instruction) on the opcodes and the label pushes, in streams of one
\* more marker triple, which lets two regions open and close
ProfUpdateMarkers ==
    \E instruction \in MarkerInstructions :
        WithinBounds(instruction, MaxTriples + 1) /\ Update(instruction)

\* complete(), profiler.rs:132-142
ProfComplete ==
    LET r == Profiler_complete(prof_self)
    IN  /\ count' = r.self.count
        /\ stage' = r.self.stage
        /\ pending_string' = r.self.pending_string
        /\ stack' = r.self.stack
        /\ opcode_count' = r.self.opcode_count
        /\ p_call' = [fn |-> "complete", ins |-> NoInstruction,
                      stage |-> stage, ret |-> r.ret]
        /\ UNCHANGED <<obs, cond_vars, codec_vars, stack_vars>>

(***************************************************************************)
(* The scriptint codec, utils.rs:85-148.                                   *)
(*                                                                         *)
(* An i64 is its 8 two's-complement bytes, the least significant first     *)
(* (TLC's own integers are 32 bits wide). Every arithmetic operator gives  *)
(* the wrapped result and whether the operation overflowed: with overflow  *)
(* checks (the debug profile) an overflow panics, without them (the        *)
(* release profile) the wrapped result is used.                            *)
(***************************************************************************)

\* Bound: the longest byte string handed to the decoder.
MaxLen == 9

\* utils.rs:103, assert!(max_size <= 8)
MAX_SIZE_LIMIT == 8

\* utils.rs:139, the width of i64
I64_BITS == 64

I64_BYTES == I64_BITS \div 8

I64_ZERO == [i \in 1..I64_BYTES |-> 0]
I64_ONE == [i \in 1..I64_BYTES |-> IF i = 1 THEN 1 ELSE 0]

\* utils.rs:142, *n as i64: the byte zero-extended
I64FromU8(n) == [i \in 1..I64_BYTES |-> IF i = 1 THEN n ELSE 0]

\* x < 0: the sign bit is the high bit of the last byte
i64_is_negative(x) == x[I64_BYTES] >= 128

\* The bytes of x + y + c from byte i upwards, the carry out of the last dropped.
RECURSIVE AddCarry(_, _, _, _)
AddCarry(x, y, i, c) ==
    IF i > I64_BYTES THEN <<>>
    ELSE <<(x[i] + y[i] + c) % 256>> \o AddCarry(x, y, i + 1, (x[i] + y[i] + c) \div 256)

\* utils.rs:142, acc + ...
i64_add(x, y) ==
    LET r == AddCarry(x, y, 1, 0)
    IN  [val |-> r,
         ovf |-> /\ i64_is_negative(x) = i64_is_negative(y)
                 /\ i64_is_negative(r) # i64_is_negative(x)]

\* utils.rs:144, ... - 1
i64_sub(x, y) ==
    LET r == AddCarry(x, [i \in 1..I64_BYTES |-> 255 - y[i]], 1, 1)
    IN  [val |-> r,
         ovf |-> /\ i64_is_negative(x) # i64_is_negative(y)
                 /\ i64_is_negative(r) # i64_is_negative(x)]

\* utils.rs:145, -ret
i64_neg(x) == i64_sub(I64_ZERO, x)

\* Bit k of the byte a, and the bitwise and of two bytes.
Bit(a, k) == (a \div 2^k) % 2
u8_and(a, b) ==
    Bit(a, 0) * Bit(b, 0) + 2 * Bit(a, 1) * Bit(b, 1) + 4 * Bit(a, 2) * Bit(b, 2)
    + 8 * Bit(a, 3) * Bit(b, 3) + 16 * Bit(a, 4) * Bit(b, 4) + 32 * Bit(a, 5) * Bit(b, 5)
    + 64 * Bit(a, 6) * Bit(b, 6) + 128 * Bit(a, 7) * Bit(b, 7)

\* utils.rs:144, ret &= ...
i64_and(x, y) == [i \in 1..I64_BYTES |-> u8_and(x[i], y[i])]

\* utils.rs:142 and :144, x << s: bits shifted out are lost without a panic;
\* a shift by 64 or more is an overflow (the wrapped shift is by s mod 64).
i64_shl(x, s) ==
    LET k == s % I64_BITS
        q == k \div 8
        r == k % 8
    IN  [val |-> [i \in 1..I64_BYTES |->
                    (IF i - q >= 1 THEN (x[i - q] * 2^r) % 256 ELSE 0)
                    + (IF i - q - 1 >= 1 THEN x[i - q - 1] \div 2^(8 - r) ELSE 0)],
         ovf |-> s >= I64_BITS]

\* utils.rs:140-142, the fold over the bytes: (acc, sh) after the bytes of v.
RECURSIVE parse_fold(_, _, _)
parse_fold(v, acc, sh) ==
    IF v = <<>> THEN [acc |-> acc, sh |-> sh]
    ELSE LET shifted == i64_shl(I64FromU8(Head(v)), sh)
             sum == i64_add(acc.val, shifted.val)
         IN  parse_fold(Tail(v),
                        [val |-> sum.val, ovf |-> acc.ovf \/ shifted.ovf \/ sum.ovf],
                        sh + 8)

\* A parse that masks the sign bit out and forgets to negate.
scriptint_parse_no_negate(v) ==
    LET f == parse_fold(v, [val |-> I64_ZERO, ovf |-> FALSE], 0)
    IN  IF v[Len(v)] >= 128
        THEN LET one == i64_shl(I64_ONE, f.sh - 1)
                 mask == i64_sub(one.val, I64_ONE)
             IN  [val |-> i64_and(f.acc.val, mask.val),
                  ovf |-> f.acc.ovf \/ one.ovf \/ mask.ovf]
        ELSE f.acc

\* utils.rs:139-148; v is not empty. The result is the value and whether any
\* step overflowed.
scriptint_parse(v) ==
    LET f == parse_fold(v, [val |-> I64_ZERO, ovf |-> FALSE], 0)
    IN  IF v[Len(v)] >= 128
        THEN LET one == i64_shl(I64_ONE, f.sh - 1)
                 mask == i64_sub(one.val, I64_ONE)
                 neg == i64_neg(i64_and(f.acc.val, mask.val))
             IN  [val |-> neg.val,
                  ovf |-> f.acc.ovf \/ one.ovf \/ mask.ovf \/ neg.ovf]
        ELSE f.acc

\* data_structures.rs:157-163 and the results of read_scriptint_size
NumericOverflow == "NumericOverflow"
NonMinimalPush == "NonMinimalPush"
ScriptOk(val) == [kind |-> "Ok", val |-> val]
ScriptErr(e) == [kind |-> "Err", err |-> e]
Panic == [kind |-> "Panic"]

\* A decoder that tests minimality before the length.
read_scriptint_size_minimal_first(v, max_size, minimal, checks) ==
    IF max_size > MAX_SIZE_LIMIT THEN Panic
    ELSE IF v = <<>> THEN ScriptOk(I64_ZERO)
    ELSE IF /\ minimal
            /\ v[Len(v)] % 128 = 0
            /\ (Len(v) <= 1 \/ v[Len(v) - 1] < 128)
    THEN ScriptErr(NonMinimalPush)
    ELSE IF Len(v) > max_size THEN ScriptErr(NumericOverflow)
    ELSE LET r == scriptint_parse(v)
         IN  IF r.ovf /\ checks THEN Panic ELSE ScriptOk(r.val)

\* utils.rs:98-136; checks says whether the build checks for overflow.
read_scriptint_size(v, max_size, minimal, checks) ==
    IF max_size > MAX_SIZE_LIMIT THEN Panic
    ELSE IF Len(v) > max_size THEN ScriptErr(NumericOverflow)
    ELSE IF v = <<>> THEN ScriptOk(I64_ZERO)
    ELSE IF /\ minimal
            /\ v[Len(v)] % 128 = 0
            /\ (Len(v) <= 1 \/ v[Len(v) - 1] < 128)
    THEN ScriptErr(NonMinimalPush)
    ELSE LET r == scriptint_parse(v)
         IN  IF r.ovf /\ checks THEN Panic ELSE ScriptOk(r.val)

\* n.unsigned_abs(): the magnitude as the 8 bytes of a u64
unsigned_abs(n) == IF i64_is_negative(n) THEN i64_neg(n).val ELSE n

\* abs & 0xFF as a byte
LowByte(x) == x[1]

\* abs >>= 8
Shr8(x) == [i \in 1..I64_BYTES |-> IF i + 1 <= I64_BYTES THEN x[i + 1] ELSE 0]

\* The loop of write_scriptint: one byte out while abs > 0xFF.
RECURSIVE write_loop(_, _)
write_loop(abs, out) ==
    IF \E i \in 2..I64_BYTES : abs[i] # 0
    THEN write_loop(Shr8(abs), Append(out, LowByte(abs)))
    ELSE [abs |-> abs, out |-> out]

\* bitcoin::script::write_scriptint, which utils.rs:88 calls: the bytes
\* written (spec.md section 4.3: the magnitude's bytes, little-endian, the
\* sign in the high bit of the last, one more byte when that bit is taken).
write_scriptint(n) ==
    IF n = I64_ZERO THEN <<>>
    ELSE LET neg == i64_is_negative(n)
             l == write_loop(unsigned_abs(n), <<>>)
             last == LowByte(l.abs)
         IN  IF last >= 128
             THEN l.out \o <<last, IF neg THEN 128 ELSE 0>>
             ELSE l.out \o <<IF neg THEN last + 128 ELSE last>>

\* utils.rs:86-90: the buffer holds 8 bytes, and a ninth (i64::MIN needs
\* it) is written out of bounds, which panics.
scriptint_vec(n) ==
    LET out == write_scriptint(n)
    IN  IF Len(out) > 8 THEN [panic |-> TRUE, bytes |-> <<>>]
        ELSE [panic |-> FALSE, bytes |-> out]

\* The bytes of the byte strings the model decodes: 0x00, 0x01, 0x7f, 0x80, 0xff.
ByteAlphabet == {0, 1, 127, 128, 255}

\* The byte strings the model decodes: every string of up to two bytes of
\* the alphabet, and the longer strings of 0x00s or of 0xffs that end in two
\* bytes of the alphabet.
ByteStrings ==
    {<<>>}
    \cup {<<q>> : q \in ByteAlphabet}
    \cup {<<p, q>> : p, q \in ByteAlphabet}
    \cup UNION {{[i \in 1..(n - 2) |-> b] \o <<p, q>> : p, q \in ByteAlphabet, b \in {0, 255}}
                : n \in 3..MaxLen}

\* The i64 of an integer n with |n| < 2^31.
I64FromNat(n) == [i \in 1..8 |-> IF i <= 4 THEN (n \div 256^(i - 1)) % 256 ELSE 0]
I64FromInt(n) == IF n >= 0 THEN I64FromNat(n) ELSE i64_neg(I64FromNat(-n)).val

\* The values the model encodes: 0, the values on both sides of every byte
\* boundary of the 32-bit range with both signs, i32::MIN, and 2^31 and
\* i64::MIN outside that range.
EncodeArgs ==
    {I64FromInt(k) : k \in {0, 1, -1, 127, -127, 128, -128, 255, -255, 256, -256,
                            32767, -32767, 32768, -32768, 8388607, -8388607,
                            8388608, -8388608, 2147483647, -2147483647}}
    \cup {<<0, 0, 0, 128, 255, 255, 255, 255>>,
          <<0, 0, 0, 128, 0, 0, 0, 0>>,
          <<0, 0, 0, 0, 0, 0, 0, 128>>}

\* No call of read_scriptint_size has returned yet.
NotCalled == [kind |-> "None"]

InitCodecIdle ==
    /\ codec_pc = "idle"
    /\ arg_v = <<>>
    /\ arg_max_size = 0
    /\ arg_minimal = FALSE
    /\ arg_n = I64_ZERO
    /\ overflow_checks = FALSE
    /\ decoded = NotCalled
    /\ encoded = <<>>
    /\ redecoded = NotCalled

\* The build's profile, and either the arguments of one call of
\* read_scriptint_size or the argument of one call of scriptint_vec.
InitCodecArgs ==
    /\ overflow_checks \in BOOLEAN
    /\ decoded = NotCalled
    /\ encoded = <<>>
    /\ redecoded = NotCalled
    /\ \/ /\ codec_pc = "args"
          /\ arg_v \in ByteStrings
          /\ arg_max_size \in 0..(MAX_SIZE_LIMIT + 1)
          /\ arg_minimal \in BOOLEAN
          /\ arg_n = I64_ZERO
       \/ /\ codec_pc = "num"
          /\ arg_n \in EncodeArgs
          /\ arg_v = <<>>
          /\ arg_max_size = 0
          /\ arg_minimal = FALSE

\* read_scriptint_size(v, max_size, minimal)
CodecDecode ==
    /\ codec_pc = "args"
    /\ decoded' = read_scriptint_size(arg_v, arg_max_size, arg_minimal, overflow_checks)
    /\ codec_pc' = "decoded"
    /\ UNCHANGED <<arg_v, arg_max_size, arg_minimal, arg_n, overflow_checks,
                   encoded, redecoded>>
    /\ UNCHANGED <<cond_vars, prof_vars, stack_vars>>

\* scriptint_vec(n) of the value decoded
CodecEncodeDecoded ==
    /\ codec_pc = "decoded"
    /\ decoded.kind = "Ok"
    /\ ~scriptint_vec(decoded.val).panic
    /\ arg_n' = decoded.val
    /\ encoded' = scriptint_vec(decoded.val).bytes
    /\ codec_pc' = "encoded"
    /\ UNCHANGED <<arg_v, arg_max_size, arg_minimal, overflow_checks, decoded, redecoded>>
    /\ UNCHANGED <<cond_vars, prof_vars, stack_vars>>

\* scriptint_vec(n)
CodecEncode ==
    /\ codec_pc = "num"
    /\ ~scriptint_vec(arg_n).panic
    /\ encoded' = scriptint_vec(arg_n).bytes
    /\ codec_pc' = "encoded"
    /\ UNCHANGED <<arg_v, arg_max_size, arg_minimal, arg_n, overflow_checks,
                   decoded, redecoded>>
    /\ UNCHANGED <<cond_vars, prof_vars, stack_vars>>

\* read_scriptint_size(encode(n), 8, true)
CodecRedecode ==
    /\ codec_pc = "encoded"
    /\ redecoded' = read_scriptint_size(encoded, MAX_SIZE_LIMIT, TRUE, overflow_checks)
    /\ codec_pc' = "redecoded"
    /\ UNCHANGED <<arg_v, arg_max_size, arg_minimal, arg_n, overflow_checks,
                   decoded, encoded>>
    /\ UNCHANGED <<cond_vars, prof_vars, stack_vars>>

(***************************************************************************)
(* Stack, data_structures.rs:7-120. An entry is Num(i64) or StrRef(bytes); *)
(* the component never mutates a buffer in place, so a StrRef is modelled  *)
(* by the bytes it holds. The vector is a sequence, the bottom first.      *)
(***************************************************************************)

\* Bound: the deepest stack the model builds.
MaxStackDepth == 2

\* data_structures.rs:8-11
StackEntry_Num(v) == [kind |-> "Num", v |-> v]
StackEntry_StrRef(v) == [kind |-> "StrRef", v |-> v]

\* The variants of ExecError that data_structures.rs returns (lines 43, 61).
InvalidStackOperation == "InvalidStackOperation"
ScriptIntNumericOverflow == "ScriptIntNumericOverflow"

\* Ok(()) of needn and popn
Unit == <<>>

\* i32::MAX as i64, data_structures.rs:58
I32_MAX == I64FromNat(2147483647)

\* x <= y on u64: the bytes compared from the most significant down.
RECURSIVE u64_le(_, _, _)
u64_le(x, y, i) ==
    IF i = 0 THEN TRUE
    ELSE IF x[i] # y[i] THEN x[i] < y[i]
    ELSE u64_le(x, y, i - 1)

\* data_structures.rs:58, v <= i32::MAX as i64 (the signed comparison)
i64_le(x, y) ==
    IF i64_is_negative(x) # i64_is_negative(y)
    THEN i64_is_negative(x)
    ELSE u64_le(x, y, I64_BYTES)

\* crate::read_scriptint, which data_structures.rs:64 and :118 call: the
\* decoder of utils.rs with its errors carried into ExecError (spec.md
\* sections 4.1 and 7: "surfacing codec errors").
read_scriptint(v, max_size, minimal, checks) ==
    LET r == read_scriptint_size(v, max_size, minimal, checks)
    IN  IF r.kind = "Err" /\ r.err = NumericOverflow
        THEN ScriptErr(ScriptIntNumericOverflow)
        ELSE r

\* data_structures.rs:17-19
Stack_new == <<>>

\* data_structures.rs:37-44; offset < 0. The index len - |offset| counts
\* from 0, the sequence from 1.
Stack_top(self, offset) ==
    IF -offset > Len(self)
    THEN ScriptErr(InvalidStackOperation)
    ELSE ScriptOk(self[Len(self) + offset + 1])

\* A rendering that gives a number's eight little-endian bytes as they are.
entry_str_raw(entry) == ScriptOk(entry.v)

\* data_structures.rs:48-51 and :102-105, the bytes of an entry
entry_str(entry) ==
    IF entry.kind = "Num"
    THEN IF scriptint_vec(entry.v).panic THEN Panic ELSE ScriptOk(scriptint_vec(entry.v).bytes)
    ELSE ScriptOk(entry.v)

\* data_structures.rs:56-65 and :110-119, the number of an entry
entry_num(entry, require_minimal, checks) ==
    IF entry.kind = "Num"
    THEN IF i64_le(entry.v, I32_MAX)
         THEN ScriptOk(entry.v)
         ELSE ScriptErr(ScriptIntNumericOverflow)
    ELSE read_scriptint(entry.v, 4, require_minimal, checks)

\* data_structures.rs:46-52
Stack_topstr(self, offset) ==
    LET entry == Stack_top(self, offset)
    IN  IF entry.kind = "Err" THEN entry ELSE entry_str(entry.val)

\* data_structures.rs:54-66
Stack_topnum(self, offset, require_minimal, checks) ==
    LET entry == Stack_top(self, offset)
    IN  IF entry.kind = "Err" THEN entry
        ELSE entry_num(entry.val, require_minimal, checks)

\* data_structures.rs:68-70
Stack_pushnum(self, num) == Append(self, StackEntry_Num(num))

\* data_structures.rs:72-75
Stack_pushstr(self, v) == Append(self, StackEntry_StrRef(v))

\* data_structures.rs:81-87
Stack_needn(self, min_nb_items) ==
    IF Len(self) < min_nb_items THEN ScriptErr(InvalidStackOperation) ELSE ScriptOk(Unit)

\* Vec::pop: the vector without its last element
Vec_pop(self) == SubSeq(self, 1, Len(self) - 1)

\* A popn that tests the depth first and removes nothing when it fails.
Stack_popn_rollback(self, n) ==
    IF Len(self) < n THEN [self |-> self, ret |-> ScriptErr(InvalidStackOperation)]
    ELSE [self |-> SubSeq(self, 1, Len(self) - n), ret |-> ScriptOk(Unit)]

\* data_structures.rs:89-94: the stack after the call and the value returned.
RECURSIVE Stack_popn(_, _)
Stack_popn(self, n) ==
    IF n = 0 THEN [self |-> self, ret |-> ScriptOk(Unit)]
    ELSE IF self = <<>> THEN [self |-> self, ret |-> ScriptErr(InvalidStackOperation)]
    ELSE Stack_popn(Vec_pop(self), n - 1)

\* data_structures.rs:100-106: the entry is popped, then rendered.
Stack_popstr(self) ==
    IF self = <<>> THEN [self |-> self, ret |-> ScriptErr(InvalidStackOperation)]
    ELSE [self |-> Vec_pop(self), ret |-> entry_str(self[Len(self)])]

\* A popnum that reads the entry first and leaves it when the reading fails.
Stack_popnum_keeps_on_error(self, require_minimal, checks) ==
    IF self = <<>> THEN [self |-> self, ret |-> ScriptErr(InvalidStackOperation)]
    ELSE LET r == entry_num(self[Len(self)], require_minimal, checks)
         IN  [self |-> IF r.kind = "Ok" THEN Vec_pop(self) ELSE self, ret |-> r]

\* data_structures.rs:108-120: the entry is popped, then read.
Stack_popnum(self, require_minimal, checks) ==
    IF self = <<>> THEN [self |-> self, ret |-> ScriptErr(InvalidStackOperation)]
    ELSE [self |-> Vec_pop(self),
          ret |-> entry_num(self[Len(self)], require_minimal, checks)]

\* The numbers the model pushes: 0, -1, i32::MAX and i32::MIN within the
\* 32-bit range; 2^31, -2^31 - 1 and i64::MIN outside it.
StackNums ==
    {I64FromInt(0), I64FromInt(-1), I32_MAX,
     <<0, 0, 0, 128, 255, 255, 255, 255>>,
     <<0, 0, 0, 128, 0, 0, 0, 0>>,
     <<255, 255, 255, 127, 255, 255, 255, 255>>,
     <<0, 0, 0, 0, 0, 0, 0, 128>>}

\* The byte strings the model pushes: the encodings of the numbers it
\* pushes (of those that have one), and the non-minimal zero [0x00].
StackStrs ==
    {scriptint_vec(n).bytes : n \in {k \in StackNums : ~scriptint_vec(k).panic}}
    \cup {<<0>>}

\* The arguments of a call, each at the value it has when the call has none.
NoArgs == [num |-> I64_ZERO, v |-> <<>>, offset |-> 0, require_minimal |-> FALSE, n |-> 0]

InitStack ==
    /\ entries = Stack_new
    /\ s_call = [fn |-> "new", args |-> NoArgs, ret |-> ScriptOk(Unit)]

\* pushnum(num)
StackPushnum ==
    /\ Len(entries) < MaxStackDepth
    /\ \E num \in StackNums :
        /\ entries' = Stack_pushnum(entries, num)
        /\ s_call' = [fn |-> "pushnum", args |-> [NoArgs EXCEPT !.num = num],
                      ret |-> ScriptOk(Unit)]
    /\ UNCHANGED <<cond_vars, prof_vars, codec_vars>>

\* pushstr(v)
StackPushstr ==
    /\ Len(entries) < MaxStackDepth
    /\ \E v \in StackStrs :
        /\ entries' = Stack_pushstr(entries, v)
        /\ s_call' = [fn |-> "pushstr", args |-> [NoArgs EXCEPT !.v = v],
                      ret |-> ScriptOk(Unit)]
    /\ UNCHANGED <<cond_vars, prof_vars, codec_vars>>

\* top(offset), offset < 0
StackTop ==
    /\ \E offset \in (-(MaxStackDepth + 1))..(-1) :
        s_call' = [fn |-> "top", args |-> [NoArgs EXCEPT !.offset = offset],
                   ret |-> Stack_top(entries, offset)]
    /\ UNCHANGED <<entries, cond_vars, prof_vars, codec_vars>>

\* topstr(offset), offset < 0
StackTopstr ==
    /\ \E offset \in (-(MaxStackDepth + 1))..(-1) :
        s_call' = [fn |-> "topstr", args |-> [NoArgs EXCEPT !.offset = offset],
                   ret |-> Stack_topstr(entries, offset)]
    /\ UNCHANGED <<entries, cond_vars, prof_vars, codec_vars>>

\* topnum(offset, require_minimal), offset < 0
StackTopnum ==
    /\ \E offset \in (-(MaxStackDepth + 1))..(-1), require_minimal \in BOOLEAN :
        s_call' = [fn |-> "topnum",
                   args |-> [NoArgs EXCEPT !.offset = offset,
                                           !.require_minimal = require_minimal],
                   ret |-> Stack_topnum(entries, offset, require_minimal, overflow_checks)]
    /\ UNCHANGED <<entries, cond_vars, prof_vars, codec_vars>>

\* needn(min_nb_items)
StackNeedn ==
    /\ \E min_nb_items \in 0..(MaxStackDepth + 1) :
        s_call' = [fn |-> "needn", args |-> [NoArgs EXCEPT !.n = min_nb_items],
                   ret |-> Stack_needn(entries, min_nb_items)]
    /\ UNCHANGED <<entries, cond_vars, prof_vars, codec_vars>>

\* popn(n)
StackPopn ==
    /\ \E n \in 0..(MaxStackDepth + 1) :
        LET r == Stack_popn(entries, n)
        IN  /\ entries' = r.self
            /\ s_call' = [fn |-> "popn", args |-> [NoArgs EXCEPT !.n = n], ret |-> r.ret]
    /\ UNCHANGED <<cond_vars, prof_vars, codec_vars>>

\* popstr()
StackPopstr ==
    LET r == Stack_popstr(entries)
    IN  /\ entries' = r.self
        /\ s_call' = [fn |-> "popstr", args |-> NoArgs, ret |-> r.ret]
        /\ UNCHANGED <<cond_vars, prof_vars, codec_vars>>

\* popnum(require_minimal)
StackPopnum ==
    /\ \E require_minimal \in BOOLEAN :
        LET r == Stack_popnum(entries, require_minimal, overflow_checks)
        IN  /\ entries' = r.self
            /\ s_call' = [fn |-> "popnum",
                          args |-> [NoArgs EXCEPT !.require_minimal = require_minimal],
                          ret |-> r.ret]
    /\ UNCHANGED <<cond_vars, prof_vars, codec_vars>>

(***************************************************************************)
(* The specifications.                                                     *)
(***************************************************************************)

Init == InitCond /\ InitProf /\ InitCodecIdle /\ InitStack

NextCond == CondPush \/ CondPop \/ CondToggleTop

SpecCond == Init /\ [][NextCond]_vars

NextProf == ProfUpdate \/ ProfComplete

SpecProf == Init /\ [][NextProf]_vars

NextProfMarkers == ProfUpdateMarkers \/ ProfComplete

SpecProfMarkers == Init /\ [][NextProfMarkers]_vars

InitCodec == InitCond /\ InitProf /\ InitCodecArgs /\ InitStack

NextCodec == CodecDecode \/ CodecEncodeDecoded \/ CodecEncode \/ CodecRedecode

SpecCodec == InitCodec /\ [][NextCodec]_vars

NextStack ==
    \/ StackPushnum \/ StackPushstr
    \/ StackTop \/ StackTopstr \/ StackTopnum \/ StackNeedn
    \/ StackPopn \/ StackPopstr \/ StackPopnum

SpecStack == Init /\ [][NextStack]_vars

(***************************************************************************)
(* C1: after every call, all_true() is true exactly when the reference     *)
(* list of booleans holds no false element.                                *)
(***************************************************************************)
C1_AllTrueMatchesReference ==
    ConditionStack_all_true(cond_self) <=> (\A i \in 1..Len(bools) : bools[i])

\* A false entry lies below a top that toggle_top has just turned true again.
C1_Witness ==
    /\ cs_call.op = "toggle_top"
    /\ Len(bools) = 3
    /\ bools = <<TRUE, FALSE, TRUE>>

(***************************************************************************)
(* C2: first_false_pos is NO_FALSE or an index below size; it is NO_FALSE  *)
(* exactly when every conceptual entry is true, and otherwise the          *)
(* (0-based) index of the lowest false entry.                              *)
(***************************************************************************)
C2_FirstFalsePosInvariant ==
    LET falses == {i \in 1..Len(bools) : ~bools[i]}
    IN  /\ size = Len(bools)
        /\ first_false_pos = NO_FALSE \/ (0 <= first_false_pos /\ first_false_pos < size)
        /\ (first_false_pos = NO_FALSE) <=> (falses = {})
        /\ falses # {} =>
              /\ (first_false_pos + 1) \in falses
              /\ \A i \in falses : first_false_pos + 1 <= i

\* The lowest false entry is neither the bottom nor the top, after a pop.
C2_Witness ==
    /\ cs_call.op = "pop"
    /\ cs_call.ret
    /\ size = 3
    /\ first_false_pos = 1
    /\ ~bools[3]

(***************************************************************************)
(* C3: when the end triple for label L closes the region on top of the     *)
(* nesting stack, the value appended to L's histogram is the total weight  *)
(* of the ordinary instructions fed between the region's start triple and  *)
(* its end triple, the instructions of marker triples counting 0.          *)
(***************************************************************************)
RegionClosed ==
    /\ p_call.fn = "update"
    /\ p_call.ins = Op(OP_DROP)
    /\ p_call.stage = "WaitingForDropToEnd"
    /\ p_call.ret = "Ok"

C3_RegionWeight ==
    RegionClosed =>
        LET vals == IndexMap_get(count, pending_string)
        IN  /\ vals # <<>>
            /\ vals[Len(vals)] = obs.closed_weight

\* The same, for the streams that hold no push between a label and its drop.
RegionWeightWithoutStrayPush ==
    (RegionClosed /\ obs.stray = 0) =>
        LET vals == IndexMap_get(count, pending_string)
        IN  /\ vals # <<>>
            /\ vals[Len(vals)] = obs.closed_weight

(***************************************************************************)
(* C4: the drop opcode in WaitingForDropToEnd succeeds exactly when the    *)
(* nesting stack is non-empty and its top label equals the pending label;  *)
(* then exactly the top entry is popped and the stage is Pending again.    *)
(* Otherwise update returns an error and records nothing.                  *)
(***************************************************************************)
C4_EndRegionMatchesTop ==
    [][(p_call'.fn = "update" /\ p_call'.ins = Op(OP_DROP)
        /\ stage = "WaitingForDropToEnd") =>
          LET matches == /\ stack # <<>>
                         /\ stack[Len(stack)].label = pending_string
          IN  /\ (p_call'.ret = "Ok") <=> matches
              /\ matches => /\ stack' = SubSeq(stack, 1, Len(stack) - 1)
                            /\ stage' = "Pending"
              /\ ~matches => /\ p_call'.ret = ERR_NOT_STARTED
                             /\ count' = count
                             /\ stack' = stack
                             /\ stage' = stage]_vars

\* region_start("a"), region_start(0xFF), region_end("a"): the wrong order.
C4_Witness ==
    /\ p_call.fn = "update"
    /\ p_call.ins = Op(OP_DROP)
    /\ p_call.stage = "WaitingForDropToEnd"
    /\ p_call.ret = ERR_NOT_STARTED
    /\ Len(stack) = 2
    /\ stack[1].label = pending_string
    /\ stack[2].label # pending_string
    /\ count = <<>>

(***************************************************************************)
(* C5: in WaitingForDropToStart and WaitingForDropToEnd every instruction  *)
(* other than the drop opcode, a byte-push included, makes update return   *)
(* an error, and neither it nor the drop adds to the weight counter.       *)
(***************************************************************************)
C5_DropRequired ==
    [][(p_call'.fn = "update"
        /\ stage \in {"WaitingForDropToStart", "WaitingForDropToEnd"}) =>
          /\ p_call'.ins # Op(OP_DROP) => p_call'.ret # "Ok"
          /\ opcode_count' = opcode_count]_vars

(***************************************************************************)
(* C6: in the WaitingForPushbytes stages a byte-push sets the pending      *)
(* label, leaves weight counter, nesting stack and histogram alone and     *)
(* moves to the matching WaitingForDrop stage, and any opcode is an error; *)
(* in Pending the start and end opcodes move to the WaitingForPushbytes    *)
(* stages without weight and every other opcode adds exactly 1.            *)
(***************************************************************************)
\* A short string written out symbol by symbol.
RECURSIVE Expand(_)
Expand(runs) ==
    IF runs = <<>> THEN <<>>
    ELSE [i \in 1..Head(runs).n |-> Head(runs).b] \o Expand(Tail(runs))

\* The UTF-8 bytes of a String of ASCII characters and U+FFFD.
RECURSIVE Utf8(_)
Utf8(chars) ==
    IF chars = <<>> THEN <<>>
    ELSE (IF Head(chars) < 128 THEN <<Head(chars)>> ELSE <<239, 191, 189>>)
         \o Utf8(Tail(chars))

\* What C6 says of every step but the label itself.
C6_Transitions ==
    /\ (stage \in {"WaitingForPushbytesToStart", "WaitingForPushbytesToEnd"}
        /\ p_call'.ins.kind = "PushBytes") =>
          /\ p_call'.ret = "Ok"
          /\ stage' = IF stage = "WaitingForPushbytesToStart"
                      THEN "WaitingForDropToStart" ELSE "WaitingForDropToEnd"
          /\ UNCHANGED <<opcode_count, stack, count>>
    /\ (stage \in {"WaitingForPushbytesToStart", "WaitingForPushbytesToEnd"}
        /\ p_call'.ins.kind = "Op") =>
          /\ p_call'.ret = ERR_EXPECTING_PUSHBYTES
    /\ (stage = "Pending" /\ p_call'.ins = Op(OP_NOP9)) =>
          /\ p_call'.ret = "Ok"
          /\ stage' = "WaitingForPushbytesToStart"
          /\ opcode_count' = opcode_count
    /\ (stage = "Pending" /\ p_call'.ins = Op(OP_NOP10)) =>
          /\ p_call'.ret = "Ok"
          /\ stage' = "WaitingForPushbytesToEnd"
          /\ opcode_count' = opcode_count
    /\ (stage = "Pending" /\ p_call'.ins.kind = "Op"
        /\ p_call'.ins.opcode \notin {OP_NOP9, OP_NOP10}) =>
          /\ p_call'.ret = "Ok"
          /\ stage' = "Pending"
          /\ opcode_count' = opcode_count + 1

\* C6 as stated: the pending label is the pushed bytes.
C6_LabelIsPushedBytes ==
    [][p_call'.fn = "update" =>
          /\ C6_Transitions
          /\ (stage \in {"WaitingForPushbytesToStart", "WaitingForPushbytesToEnd"}
              /\ p_call'.ins.kind = "PushBytes") =>
                Utf8(Expand(pending_string')) = Expand(p_call'.ins.bytes)]_vars

\* C6 as amended: the pending label is the pushed bytes decoded as UTF-8,
\* with U+FFFD in the place of every byte that is not UTF-8; it is the pushed
\* bytes when they are UTF-8.
C6_LabelIsLossyDecoding ==
    [][p_call'.fn = "update" =>
          /\ C6_Transitions
          /\ (stage \in {"WaitingForPushbytesToStart", "WaitingForPushbytesToEnd"}
              /\ p_call'.ins.kind = "PushBytes") =>
                LET bytes == Expand(p_call'.ins.bytes)
                    label == Expand(pending_string')
                IN  /\ Len(label) = Len(bytes)
                    /\ \A i \in 1..Len(bytes) :
                          label[i] = IF bytes[i] < 128 THEN bytes[i] ELSE 65533
                    /\ (\A i \in 1..Len(bytes) : bytes[i] < 128)
                          => Utf8(label) = bytes]_vars

\* The label push 0xFF after a region-end opcode: the label is U+FFFD.
C6_Witness ==
    /\ p_call.fn = "update"
    /\ p_call.stage = "WaitingForPushbytesToEnd"
    /\ p_call.ins = PushBytes(Fill(255, 1))
    /\ p_call.ret = "Ok"
    /\ stage = "WaitingForDropToEnd"
    /\ pending_string = <<[b |-> 65533, n |-> 1]>>

(***************************************************************************)
(* C7: complete() succeeds exactly when the stage is Pending and the       *)
(* nesting stack is empty, that is when every marker triple was finished   *)
(* and every region opened has been closed; it fails with one error when   *)
(* the stage is not Pending, with another when the stage is Pending and    *)
(* the stack is not empty, and it changes no profiler state.               *)
(***************************************************************************)
C7_Complete ==
    [][p_call'.fn = "complete" =>
          /\ UNCHANGED <<count, stage, pending_string, stack, opcode_count>>
          /\ (p_call'.ret = "Ok") <=> (stage = "Pending" /\ stack = <<>>)
          /\ (p_call'.ret = "Ok") <=> (obs.phase = 0 /\ obs.opened = obs.closed)
          /\ stage # "Pending" => p_call'.ret = ERR_UNFINISHED
          /\ (stage = "Pending" /\ stack # <<>>) => p_call'.ret = ERR_UNCLOSED
          /\ ERR_UNFINISHED # ERR_UNCLOSED
          /\ "Ok" \notin {ERR_UNFINISHED, ERR_UNCLOSED}]_vars

\* complete() succeeds after a region was opened and closed.
C7_Witness ==
    /\ p_call.fn = "complete"
    /\ p_call.ret = "Ok"
    /\ obs.opened = 1
    /\ obs.closed = 1
    /\ count # <<>>

(***************************************************************************)
(* Reading i64 values in the claims about the codec.                       *)
(***************************************************************************)

\* x lies in the signed 32-bit range: the bits from bit 31 up are copies of
\* the sign.
InI32(x) ==
    IF x[8] >= 128
    THEN x[4] >= 128 /\ \A i \in 5..8 : x[i] = 255
    ELSE x[4] < 128 /\ \A i \in 5..8 : x[i] = 0

\* The sign-magnitude little-endian value of a non-empty string of at most 8
\* bytes: the magnitude from all bits but the high bit of the last byte,
\* negated when that bit is set.
SignMagnitude(v) ==
    LET magnitude == [i \in 1..8 |->
                        IF i < Len(v) THEN v[i]
                        ELSE IF i = Len(v) THEN v[i] % 128
                        ELSE 0]
    IN  IF v[Len(v)] >= 128 THEN i64_neg(magnitude).val ELSE magnitude

(***************************************************************************)
(* C8: for every max_size in 0..8 and either value of minimal, a byte      *)
(* string longer than max_size decodes to NumericOverflow whatever its     *)
(* bytes, the length check coming before the minimality check; the empty   *)
(* string decodes to 0 for every max_size.                                 *)
(***************************************************************************)
C8_OverlongIsOverflow ==
    (decoded # NotCalled /\ arg_max_size \in 0..8) =>
        /\ Len(arg_v) > arg_max_size => decoded = ScriptErr(NumericOverflow)
        /\ arg_v = <<>> => decoded = ScriptOk(I64FromInt(0))

\* The 5-byte zero with max_size 4 and minimal set.
C8_Witness ==
    /\ codec_pc = "decoded"
    /\ arg_v = <<0, 0, 0, 0, 0>>
    /\ arg_max_size = 4
    /\ arg_minimal
    /\ decoded = ScriptErr(NumericOverflow)

(***************************************************************************)
(* C9: for n in the signed 32-bit range, decode(encode(n), 8, true) = n;   *)
(* encode(n) is minimal, no shorter byte string decoding to n, and         *)
(* encode(0) is the empty string. Where n is the value a byte string       *)
(* decoded to, that string is one of those that decode to n.               *)
(***************************************************************************)
C9_RoundTrip ==
    /\ (codec_pc = "num" /\ InI32(arg_n)) => ~scriptint_vec(arg_n).panic
    /\ (codec_pc = "decoded" /\ decoded.kind = "Ok" /\ InI32(decoded.val)) =>
            ~scriptint_vec(decoded.val).panic
    /\ (codec_pc \in {"encoded", "redecoded"} /\ InI32(arg_n)) =>
            /\ arg_n = I64FromInt(0) => encoded = <<>>
            /\ decoded # NotCalled => Len(encoded) <= Len(arg_v)
    /\ (codec_pc = "redecoded" /\ InI32(arg_n)) => redecoded = ScriptOk(arg_n)

\* -2^31 encoded in five bytes and decoded again.
C9_Witness ==
    /\ codec_pc = "redecoded"
    /\ decoded = NotCalled
    /\ arg_n = <<0, 0, 0, 128, 255, 255, 255, 255>>
    /\ encoded = <<0, 0, 0, 128, 128>>
    /\ redecoded = ScriptOk(arg_n)

(***************************************************************************)
(* C10: for a non-empty byte string no longer than max_size, with minimal  *)
(* set, decode returns NonMinimalPush exactly when the last byte without   *)
(* its high bit is 0 and either the string has one byte or the byte before *)
(* the last has its high bit clear; in every other case it returns the     *)
(* sign-magnitude little-endian value.                                     *)
(***************************************************************************)
C10_MinimalDecode ==
    (/\ decoded # NotCalled
     /\ arg_v # <<>>
     /\ arg_max_size \in 0..8
     /\ Len(arg_v) <= arg_max_size
     /\ arg_minimal) =>
        IF /\ arg_v[Len(arg_v)] % 128 = 0
           /\ (Len(arg_v) = 1 \/ arg_v[Len(arg_v) - 1] < 128)
        THEN decoded = ScriptErr(NonMinimalPush)
        ELSE decoded = ScriptOk(SignMagnitude(arg_v))

\* The same, but for the eight-byte strings with the sign bit set in a build
\* that checks for overflow.
MinimalDecodeWithoutOverflow ==
    (/\ decoded # NotCalled
     /\ arg_v # <<>>
     /\ arg_max_size \in 0..8
     /\ Len(arg_v) <= arg_max_size
     /\ arg_minimal
     /\ ~(overflow_checks /\ Len(arg_v) = 8 /\ arg_v[Len(arg_v)] >= 128)) =>
        IF /\ arg_v[Len(arg_v)] % 128 = 0
           /\ (Len(arg_v) = 1 \/ arg_v[Len(arg_v) - 1] < 128)
        THEN decoded = ScriptErr(NonMinimalPush)
        ELSE decoded = ScriptOk(SignMagnitude(arg_v))

\* The examples of C10: [0x00, 0x80], [0x80] and [0x00] are rejected,
\* [0xff, 0x00] is 255 and [0xff, 0x80] is -255.
MinimalDecodeExamples ==
    (decoded # NotCalled /\ arg_max_size \in 2..8 /\ arg_minimal) =>
        /\ arg_v \in {<<0, 128>>, <<128>>, <<0>>} => decoded = ScriptErr(NonMinimalPush)
        /\ arg_v = <<255, 0>> => decoded = ScriptOk(I64FromInt(255))
        /\ arg_v = <<255, 128>> => decoded = ScriptOk(I64FromInt(-255))

(***************************************************************************)
(* Reading the Stack's calls in the claims.                                *)
(***************************************************************************)

\* i32::MIN as i64
I32_MIN == <<0, 0, 0, 128, 255, 255, 255, 255>>

\* The step is a call of fn.
Calls(fn) == s_call'.fn = fn

(***************************************************************************)
(* C11: for every n in the signed 32-bit range and every stack, pushnum(n) *)
(* followed by topstr(-1) returns encode(n), and pushstr(encode(n))        *)
(* followed by topnum(-1, true) returns n.                                 *)
(***************************************************************************)
C11_Duality ==
    [][/\ (/\ s_call.fn = "pushnum"
           /\ InI32(s_call.args.num)
           /\ s_call'.fn = "topstr"
           /\ s_call'.args.offset = -1) =>
              /\ ~scriptint_vec(s_call.args.num).panic
              /\ s_call'.ret = ScriptOk(scriptint_vec(s_call.args.num).bytes)
       /\ (/\ s_call.fn = "pushstr"
           /\ s_call'.fn = "topnum"
           /\ s_call'.args.offset = -1
           /\ s_call'.args.require_minimal) =>
              \A n \in StackNums :
                  (/\ InI32(n)
                   /\ ~scriptint_vec(n).panic
                   /\ s_call.args.v = scriptint_vec(n).bytes) =>
                      s_call'.ret = ScriptOk(n)
      ]_vars

(***************************************************************************)
(* C11 as amended: the first half as claimed; the second half for every n  *)
(* from -(2^31 - 1) to 2^31 - 1, while for n = -2^31, whose encoding has   *)
(* five bytes, topnum(-1, true) returns the numeric-overflow error.        *)
(***************************************************************************)
C11_DualityWithinFourBytes ==
    [][/\ (/\ s_call.fn = "pushnum"
           /\ InI32(s_call.args.num)
           /\ s_call'.fn = "topstr"
           /\ s_call'.args.offset = -1) =>
              /\ ~scriptint_vec(s_call.args.num).panic
              /\ s_call'.ret = ScriptOk(scriptint_vec(s_call.args.num).bytes)
       /\ (/\ s_call.fn = "pushstr"
           /\ s_call'.fn = "topnum"
           /\ s_call'.args.offset = -1
           /\ s_call'.args.require_minimal) =>
              \A n \in StackNums :
                  (/\ InI32(n)
                   /\ ~scriptint_vec(n).panic
                   /\ s_call.args.v = scriptint_vec(n).bytes) =>
                      IF n = I32_MIN
                      THEN /\ Len(s_call.args.v) = 5
                           /\ s_call'.ret = ScriptErr(ScriptIntNumericOverflow)
                      ELSE s_call'.ret = ScriptOk(n)
      ]_vars

\* encode(-2^31) on top of a stack that holds another entry, read with
\* topnum(-1, true).
C11_Witness ==
    /\ Len(entries) = 2
    /\ entries[2] = StackEntry_StrRef(<<0, 0, 0, 128, 128>>)
    /\ s_call.fn = "topnum"
    /\ s_call.args.offset = -1
    /\ s_call.args.require_minimal
    /\ s_call.ret = ScriptErr(ScriptIntNumericOverflow)

\* The entry a topnum or popnum step reads, when there is one.
ReadsEntry ==
    \/ Calls("topnum") /\ -s_call'.args.offset <= Len(entries)
    \/ Calls("popnum") /\ entries # <<>>

EntryRead ==
    IF s_call'.fn = "topnum"
    THEN entries[Len(entries) + s_call'.args.offset + 1]
    ELSE entries[Len(entries)]

(***************************************************************************)
(* C12: topnum and popnum, reading an entry Num(v), return v when v lies   *)
(* in the signed 32-bit range and the numeric-overflow error when v lies   *)
(* above or below it, whatever require_minimal is.                         *)
(***************************************************************************)
C12_NumInRange ==
    [][(ReadsEntry /\ EntryRead.kind = "Num") =>
          IF InI32(EntryRead.v)
          THEN s_call'.ret = ScriptOk(EntryRead.v)
          ELSE s_call'.ret = ScriptErr(ScriptIntNumericOverflow)
      ]_vars

\* The same with the range's upper end alone, as data_structures.rs:58 and
\* :112 test it.
NumNotAboveMax ==
    [][(ReadsEntry /\ EntryRead.kind = "Num") =>
          IF i64_is_negative(EntryRead.v) \/ InI32(EntryRead.v)
          THEN s_call'.ret = ScriptOk(EntryRead.v)
          ELSE s_call'.ret = ScriptErr(ScriptIntNumericOverflow)
      ]_vars

\* The entry at index depth + offset, counted from 0 at the bottom.
EntryAt(offset) == entries[Len(entries) + offset + 1]

\* What C13 says of one step, topstr's rendering of the entries in
\* Unrendered left aside.
FrameAndErrors(Unrendered) ==
    /\ (Calls("top") \/ Calls("topstr") \/ Calls("topnum") \/ Calls("needn")) =>
          entries' = entries
    /\ Calls("top") =>
          IF -s_call'.args.offset > Len(entries)
          THEN s_call'.ret = ScriptErr(InvalidStackOperation)
          ELSE s_call'.ret = ScriptOk(EntryAt(s_call'.args.offset))
    /\ Calls("topstr") =>
          IF -s_call'.args.offset > Len(entries)
          THEN s_call'.ret = ScriptErr(InvalidStackOperation)
          ELSE EntryAt(s_call'.args.offset) \notin Unrendered =>
                  /\ s_call'.ret.kind = "Ok"
                  /\ EntryAt(s_call'.args.offset).kind = "StrRef" =>
                        s_call'.ret.val = EntryAt(s_call'.args.offset).v
    /\ Calls("topnum") =>
          IF -s_call'.args.offset > Len(entries)
          THEN s_call'.ret = ScriptErr(InvalidStackOperation)
          ELSE /\ s_call'.ret # ScriptErr(InvalidStackOperation)
               /\ s_call'.ret =
                     entry_num(EntryAt(s_call'.args.offset),
                               s_call'.args.require_minimal, overflow_checks)
    /\ Calls("needn") =>
          IF Len(entries) < s_call'.args.n
          THEN s_call'.ret = ScriptErr(InvalidStackOperation)
          ELSE s_call'.ret = ScriptOk(Unit)

(***************************************************************************)
(* C13: top, topstr, topnum (offset < 0) and needn never change the stack; *)
(* top, topstr and topnum fail with InvalidStackOperation exactly when     *)
(* |offset| exceeds the depth and otherwise address the entry at index     *)
(* depth + offset; topstr never fails once the offset is valid; needn(min) *)
(* fails with InvalidStackOperation exactly when depth < min.              *)
(***************************************************************************)
C13_ReadsLeaveStack == [][FrameAndErrors({})]_vars

\* The same, topstr of the entry Num(i64::MIN) left aside.
ReadsLeaveStackButI64Min ==
    [][FrameAndErrors({StackEntry_Num(<<0, 0, 0, 0, 0, 0, 0, 128>>)})]_vars

(***************************************************************************)
(* C14: popn(n) on a stack of depth d succeeds when d >= n, removing the   *)
(* top n entries and leaving the lower d - n as they were; when d < n it   *)
(* returns InvalidStackOperation with every entry removed, the stack left  *)
(* empty. popn(0) always succeeds and changes nothing.                     *)
(***************************************************************************)
C14_Popn ==
    [][Calls("popn") =>
          /\ IF Len(entries) >= s_call'.args.n
             THEN /\ s_call'.ret = ScriptOk(Unit)
                  /\ Len(entries') = Len(entries) - s_call'.args.n
                  /\ \A i \in 1..Len(entries') : entries'[i] = entries[i]
             ELSE /\ s_call'.ret = ScriptErr(InvalidStackOperation)
                  /\ entries' = <<>>
          /\ s_call'.args.n = 0 => (s_call'.ret = ScriptOk(Unit) /\ entries' = entries)
      ]_vars

\* popn(1) has succeeded and has left an entry on the stack.
C14_Witness ==
    /\ s_call.fn = "popn"
    /\ s_call.args.n = 1
    /\ s_call.ret = ScriptOk(Unit)
    /\ Len(entries) = 1

(***************************************************************************)
(* C15: popstr() and popnum(m) return what topstr(-1) and topnum(-1, m)    *)
(* return on the same stack; on an empty stack that is                     *)
(* InvalidStackOperation and the stack stays empty; on any other stack the *)
(* top entry is removed and the entries below stay, whatever is returned,  *)
(* NumericOverflow and NonMinimalPush included.                            *)
(***************************************************************************)
C15_PopsLikeTops ==
    [][/\ Calls("popstr") => s_call'.ret = Stack_topstr(entries, -1)
       /\ Calls("popnum") =>
             s_call'.ret =
                Stack_topnum(entries, -1, s_call'.args.require_minimal, overflow_checks)
       /\ (Calls("popstr") \/ Calls("popnum")) =>
             IF entries = <<>>
             THEN /\ s_call'.ret = ScriptErr(InvalidStackOperation)
                  /\ entries' = <<>>
             ELSE /\ Len(entries') = Len(entries) - 1
                  /\ \A i \in 1..Len(entries') : entries'[i] = entries[i]
      ]_vars

\* popnum(true) has returned NonMinimalPush and has left one entry.
C15_Witness ==
    /\ s_call.fn = "popnum"
    /\ s_call.args.require_minimal
    /\ s_call.ret = ScriptErr(NonMinimalPush)
    /\ Len(entries) = 1

(***************************************************************************)
(* Reading the Profiler's calls in the later claims.                       *)
(***************************************************************************)

\* The number of values a histogram holds.
RECURSIVE TotalValues(_)
TotalValues(c) == IF c = <<>> THEN 0 ELSE Len(Head(c).vals) + TotalValues(Tail(c))

\* The list a histogram holds for a label, empty when it holds none.
ValuesOf(c, label) ==
    IF IndexMap_index_of(c, label) = 0 THEN <<>> ELSE c[IndexMap_index_of(c, label)].vals

\* The step is an update that returned Ok on the drop of an end triple.
ClosesRegion ==
    /\ p_call'.fn = "update"
    /\ p_call'.ins = Op(OP_DROP)
    /\ p_call'.stage = "WaitingForDropToEnd"
    /\ p_call'.ret = "Ok"

(***************************************************************************)
(* C16: the histogram only grows: one key per label, the keys in the order *)
(* in which their first region was closed, no list ever shortened or       *)
(* reordered; a successful drop after an end marker appends one value to   *)
(* the list of the label just closed and to no other, and every other call *)
(* leaves the histogram as it was; the number of values recorded is the    *)
(* number of regions closed so far.                                        *)
(***************************************************************************)
C16_HistogramGrows ==
    [][/\ \A i, j \in 1..Len(count') : count'[i].key = count'[j].key => i = j
       /\ Len(count') >= Len(count)
       /\ \A i \in 1..Len(count) :
             /\ count'[i].key = count[i].key
             /\ Len(count'[i].vals) >= Len(count[i].vals)
             /\ SubSeq(count'[i].vals, 1, Len(count[i].vals)) = count[i].vals
       /\ IF ClosesRegion
          THEN /\ TotalValues(count') = TotalValues(count) + 1
               /\ Len(ValuesOf(count', pending_string))
                     = Len(ValuesOf(count, pending_string)) + 1
               /\ IndexMap_index_of(count, pending_string) = 0 =>
                     count'[Len(count')].key = pending_string
          ELSE count' = count
       /\ TotalValues(count') = obs'.closed
      ]_vars

\* A label's second region has just been closed: its list holds two values.
C16_Witness ==
    /\ p_call.fn = "update"
    /\ p_call.ins = Op(OP_DROP)
    /\ p_call.stage = "WaitingForDropToEnd"
    /\ p_call.ret = "Ok"
    /\ Len(count) = 1
    /\ Len(count[1].vals) = 2

(***************************************************************************)
(* C17: for every max_size in 0..8, either value of minimal and every byte *)
(* string of at most max_size bytes, those of 8 bytes with the high bit of *)
(* the last set included, decode returns a value, NumericOverflow or       *)
(* NonMinimalPush, and no step of the computation (the accumulation, the   *)
(* sign mask (1 << (8*len - 1)) - 1, the negation) overflows an i64.       *)
(***************************************************************************)
C17_NoOverflow ==
    (/\ decoded # NotCalled
     /\ arg_max_size \in 0..8
     /\ Len(arg_v) <= arg_max_size) =>
        /\ decoded.kind \in {"Ok", "Err"}
        /\ (decoded.kind = "Ok" /\ arg_v # <<>>) => ~scriptint_parse(arg_v).ovf

\* The same for the strings of fewer than 8 bytes and those of 8 bytes with
\* the high bit of the last clear.
NoOverflowWithoutSignAtBit63 ==
    (/\ decoded # NotCalled
     /\ arg_max_size \in 0..8
     /\ Len(arg_v) <= arg_max_size
     /\ ~(Len(arg_v) = 8 /\ arg_v[8] >= 128)) =>
        /\ decoded.kind \in {"Ok", "Err"}
        /\ (decoded.kind = "Ok" /\ arg_v # <<>>) => ~scriptint_parse(arg_v).ovf

(***************************************************************************)
(* C18: pop() and toggle_top() return false exactly when the stack is      *)
(* empty, and then leave size and first_false_pos as they were; otherwise  *)
(* they return true, pop() taking one from size and toggle_top() leaving   *)
(* size alone. push(v) always adds one to size.                            *)
(***************************************************************************)
C18_ReturnValues ==
    [][/\ cs_call'.op = "pop" =>
             IF size = 0
             THEN ~cs_call'.ret /\ size' = size /\ first_false_pos' = first_false_pos
             ELSE cs_call'.ret /\ size' = size - 1
       /\ cs_call'.op = "toggle_top" =>
             IF size = 0
             THEN ~cs_call'.ret /\ size' = size /\ first_false_pos' = first_false_pos
             ELSE cs_call'.ret /\ size' = size
       /\ cs_call'.op = "push" => size' = size + 1
      ]_vars

\* pop() on the empty stack has returned false.
C18_Witness ==
    /\ cs_call = [op |-> "pop", ret |-> FALSE]
    /\ size = 0
    /\ first_false_pos = NO_FALSE

\* The Profiler's struct after the step.
prof_self_after ==
    [count |-> count', stage |-> stage', pending_string |-> pending_string',
     stack |-> stack', opcode_count |-> opcode_count']

(***************************************************************************)
(* C19: when update returns an error, the profiler (stage, pending label,  *)
(* weight counter, nesting stack, histogram) is what it was before the     *)
(* call; so the same instruction fed again gets the same error, and a      *)
(* complete() after an error raised in a stage other than Pending fails.   *)
(***************************************************************************)
C19_ErrorLeavesState ==
    [][(p_call'.fn = "update" /\ p_call'.ret # "Ok") =>
          /\ prof_self_after = prof_self
          /\ Profiler_update(prof_self_after, p_call'.ins).ret = p_call'.ret
          /\ Profiler_update(prof_self_after, p_call'.ins).self = prof_self
          /\ p_call'.stage # "Pending" =>
                Profiler_complete(prof_self_after).ret # "Ok"
      ]_vars

\* update has refused the drop of an end triple whose label is not the one
\* of the innermost open region.
C19_Witness ==
    /\ p_call.fn = "update"
    /\ p_call.ins = Op(OP_DROP)
    /\ p_call.ret = ERR_NOT_STARTED
    /\ stage = "WaitingForDropToEnd"
    /\ stack # <<>>

(***************************************************************************)
(* C20: in every state that update calls reach, the weight counter never   *)
(* decreases, the baselines in the nesting stack do not decrease from the  *)
(* bottom to the top, and each is at most the weight counter; so the       *)
(* subtraction made when a region is closed never underflows and every     *)
(* value in the histogram is >= 0. The depth of the nesting stack is the   *)
(* number of start triples completed less that of end triples completed.   *)
(***************************************************************************)
C20_WeightMonotone ==
    [][/\ opcode_count' >= opcode_count
       /\ \A i, j \in 1..Len(stack') : i <= j => stack'[i].count <= stack'[j].count
       /\ \A i \in 1..Len(stack') : stack'[i].count <= opcode_count'
       /\ ClosesRegion => opcode_count - stack[Len(stack)].count >= 0
       /\ \A i \in 1..Len(count') : \A k \in 1..Len(count'[i].vals) : count'[i].vals[k] >= 0
       /\ Len(stack') = obs'.opened - obs'.closed
      ]_vars

\* Two regions are open, the inner one started at a greater weight.
C20_Witness ==
    /\ Len(stack) = 2
    /\ stack[1].count < stack[2].count
    /\ stack[2].count <= opcode_count
    /\ obs.opened = 2
    /\ obs.closed = 0

====
